---------------------------- MODULE Spec2Model ----------------------------
(***************************************************************************)
(* Model of the routing code of gdsfactory:                                *)
(*   routing/route_sharp.py          path_straight .. path_V, path_manhattan*)
(*   routing/route_ports_to_side.py  route_ports_to_side / _x / _y          *)
(* and of its file watcher:                                                *)
(*   watch.py                        YamlEventHandler                      *)
(*                                                                         *)
(* Numbers.  The code computes in floating point.  The model computes in   *)
(* fixed point: every length and every angle is an integer number of       *)
(* 1/Scale units (1e-4 um, 1e-4 degree), one decimal digit finer than the   *)
(* three digits np.round(..., 3) keeps, so that rounding is not the         *)
(* identity.  Unit vectors are stored times Scale.                          *)
(***************************************************************************)
EXTENDS Integers, Sequences, FiniteSets, TLC

VARIABLES
    port1,      \* route_sharp: start port  [name, x, y, o]
    port2,      \* route_sharp: end port
    call,       \* route_sharp: the synthesizer applied and its extra arguments
    result,     \* route_sharp: what the synthesizer returned or raised
    list_ports, \* route_ports_to_side: the caller's list of ports
    args,       \* route_ports_to_side: entry point called and its arguments
    ret,        \* route_ports_to_side: what the call returned or raised
    files,      \* watch: the paths of the files in the watched directory
    cells,      \* watch: the cells of the active PDK, by cell name
    CACHE,      \* watch: the names of the cells whose component is cached
    event       \* watch: the event handled last

vars == <<port1, port2, call, result, list_ports, args, ret,
          files, cells, CACHE, event>>

\* the watcher when nothing is watched
NoWatch == files = {} /\ cells = <<>> /\ CACHE = {} /\ event = [type |-> "none"]

watch_vars == <<files, cells, CACHE, event>>

---------------------------------------------------------------------------
(* Fixed point arithmetic *)

\* digits kept by np.round(x, 3)
RoundDigits == 3

Scale == 10 ^ (RoundDigits + 1)

Deg(k) == k * Scale

Abs(v) == IF v < 0 THEN -v ELSE v

Sign(v) == IF v < 0 THEN -1 ELSE IF v > 0 THEN 1 ELSE 0

Max(a, b) == IF a >= b THEN a ELSE b

Min(a, b) == IF a <= b THEN a ELSE b

\* n / d rounded to the nearest integer (d > 0)
RoundDiv(n, d) == (2 * n + d) \div (2 * d)

\* np.round(v, 3): to the nearest multiple of 1e-3, halves to the even one
Round3(v) ==
    LET q == v \div 10
        r == v % 10
    IN  IF r < 5 THEN 10 * q
        ELSE IF r > 5 THEN 10 * (q + 1)
        ELSE IF q % 2 = 0 THEN 10 * q ELSE 10 * (q + 1)

\* np.mod(a, 360): result in [0, 360)
Mod360(a) == a % Deg(360)

\* cos and sin of an angle, times Scale.  The table holds the multiples of
\* 45 degrees; an angle within rounding distance of one of them has, at the
\* resolution of the model, the same cosine and sine.
Octant(theta) == (RoundDiv(Mod360(theta), Deg(45))) % 8

Cos(theta) ==
    CASE Octant(theta) = 0 -> Scale
      [] Octant(theta) = 1 -> 7071
      [] Octant(theta) = 2 -> 0
      [] Octant(theta) = 3 -> -7071
      [] Octant(theta) = 4 -> -Scale
      [] Octant(theta) = 5 -> -7071
      [] Octant(theta) = 6 -> 0
      [] Octant(theta) = 7 -> 7071

Sin(theta) == Cos(theta - Deg(90))

\* _get_rotated_basis(theta): forward and left unit vectors
rotated_basis(theta) ==
    [e1 |-> <<Cos(theta), Sin(theta)>>,
     e2 |-> <<-Sin(theta), Cos(theta)>>]

\* np.dot(v, e) for a unit vector e stored times Scale
Dot(v, e) == RoundDiv(v[1] * e[1] + v[2] * e[2], Scale)

\* pt + len * e
Along(pt, len, e) ==
    <<pt[1] + RoundDiv(len * e[1], Scale), pt[2] + RoundDiv(len * e[2], Scale)>>

Center(p) == <<p.x, p.y>>

Sub(a, b) == <<a[1] - b[1], a[2] - b[2]>>

---------------------------------------------------------------------------
(* route_sharp.py: the waypoint synthesizers *)

\* Path(np.array(points)): the polyline of the given waypoints
Path(points, shape) == [status |-> "ok", pts |-> points, shape |-> shape]

Raise(err) == [status |-> "error", pts |-> <<>>, shape |-> err]

\* the orientation difference without the rounding to three decimals
delta_orientation_unrounded(p1, p2) ==
    Abs(Mod360(p1.o - p2.o))

\* np.round(np.abs(np.mod(port1.orientation - port2.orientation, 360)), 3)
delta_orientation(p1, p2) ==
    Round3(Abs(Mod360(p1.o - p2.o)))

Parallel == {Deg(0), Deg(180), Deg(360)}

Orthogonal == {Deg(90), Deg(270)}

\* relative position of port 2 in port 1's frame, rounded
xrel(p1, p2) == Round3(Dot(Sub(Center(p2), Center(p1)), rotated_basis(p1.o).e1))

yrel(p1, p2) == Round3(Dot(Sub(Center(p2), Center(p1)), rotated_basis(p1.o).e2))

path_straight(p1, p2) ==
    IF delta_orientation(p1, p2) \notin Parallel
       \/ yrel(p1, p2) # 0
       \/ xrel(p1, p2) <= 0
    THEN Raise("ValueError")
    ELSE Path(<<Center(p1), Center(p2)>>, "straight")

\* an L that leaves out a corner lying on port 1
path_L_merged(p1, p2) ==
    IF delta_orientation(p1, p2) \notin Orthogonal
    THEN Raise("ValueError")
    ELSE LET e1 == rotated_basis(p1.o).e1
             pt1 == Center(p1)
             pt3 == Center(p2)
             delta_vec == Sub(pt3, pt1)
             pt2 == Along(pt1, Dot(delta_vec, e1), e1)
         IN  IF pt2 = pt1
             THEN Path(<<pt1, pt3>>, "L")
             ELSE Path(<<pt1, pt2, pt3>>, "L")

path_L(p1, p2) ==
    IF delta_orientation(p1, p2) \notin Orthogonal
    THEN Raise("ValueError")
    ELSE LET e1 == rotated_basis(p1.o).e1
             pt1 == Center(p1)
             pt3 == Center(p2)
             delta_vec == Sub(pt3, pt1)
             pt2 == Along(pt1, Dot(delta_vec, e1), e1)
         IN  Path(<<pt1, pt2, pt3>>, "L")

path_U(p1, p2, length1) ==
    IF delta_orientation(p1, p2) \notin Parallel
    THEN Raise("ValueError")
    ELSE LET e1 == <<Cos(p1.o), Sin(p1.o)>>
             e2 == <<-Sin(p1.o), Cos(p1.o)>>
             pt1 == Center(p1)
             pt4 == Center(p2)
             pt2 == Along(pt1, length1, e1)
             delta_vec == Sub(pt4, pt2)
             pt3 == Along(pt2, Dot(delta_vec, e2), e2)
         IN  Path(<<pt1, pt2, pt3, pt4>>, "U")

path_J(p1, p2, length1, length2) ==
    IF delta_orientation(p1, p2) \notin Orthogonal
    THEN Raise("ValueError")
    ELSE LET e1 == rotated_basis(p1.o).e1
             e2 == rotated_basis(p2.o).e1
             pt1 == Center(p1)
             pt2 == Along(pt1, length1, e1)
             pt5 == Center(p2)
             pt4 == Along(pt5, length2, e2)
             delta_vec == Sub(pt4, pt2)
             pt3 == Along(pt2, Dot(delta_vec, e2), e2)
         IN  Path(<<pt1, pt2, pt3, pt4, pt5>>, "J")

path_C(p1, p2, length1, left1, length2) ==
    IF delta_orientation(p1, p2) \notin Parallel
    THEN Raise("ValueError")
    ELSE LET e1 == rotated_basis(p1.o).e1
             e_left == rotated_basis(p1.o).e2
             e2 == rotated_basis(p2.o).e1
             pt1 == Center(p1)
             pt2 == Along(pt1, length1, e1)
             pt3 == Along(pt2, left1, e_left)
             pt6 == Center(p2)
             pt5 == Along(pt6, length2, e2)
             delta_vec == Sub(pt5, pt3)
             pt4 == Along(pt3, Dot(delta_vec, e1), e1)
         IN  Path(<<pt1, pt2, pt3, pt4, pt5, pt6>>, "C")

\* a Z that stops at the end of its second leg
path_Z_open(p1, p2, length1, length2) ==
    LET e1 == rotated_basis(p1.o).e1
        e2 == rotated_basis(p2.o).e1
        pt1 == Center(p1)
        pt2 == Along(pt1, length1, e1)
        pt4 == Center(p2)
        pt3 == Along(pt4, length2, e2)
    IN  Path(<<pt1, pt2, pt3, pt3>>, "Z")

path_Z(p1, p2, length1, length2) ==
    LET e1 == rotated_basis(p1.o).e1
        e2 == rotated_basis(p2.o).e1
        pt1 == Center(p1)
        pt2 == Along(pt1, length1, e1)
        pt4 == Center(p2)
        pt3 == Along(pt4, length2, e2)
    IN  Path(<<pt1, pt2, pt3, pt4>>, "Z")

\* a distance that leads far outside the layout (whose coordinates stay within
\* about 1 um), standing for the ~1e16 that the inverse of an ill-conditioned
\* matrix yields
Far == 10 * Scale

\* np.matmul(np.linalg.inv(E), pt3 - pt1)[0] with E = column_stack((e1, -e2)).
\* residual is the sign of the determinant LAPACK sees when the two directions
\* are parallel: 0 when the LU factorisation meets an exact zero pivot
\* (LinAlgError), +1 or -1 when floating point leaves a tiny pivot and the
\* inverse has entries of order 1e16.
solve_V(e1, e2, d, residual) ==
    LET det == e1[1] * (-e2[2]) - (-e2[1]) * e1[2]
        num == (-e2[2]) * d[1] - (-e2[1]) * d[2]
        detS == det \div Scale
        lateral == RoundDiv((-e1[2]) * d[1] + e1[1] * d[2], Scale)
    IN  IF det # 0
        THEN [ok |-> TRUE,
              t |-> IF detS > 0 THEN RoundDiv(num, detS) ELSE RoundDiv(-num, -detS)]
        ELSE IF residual = 0
        THEN [ok |-> FALSE, t |-> 0]
        ELSE [ok |-> TRUE,
              t |-> IF lateral = 0
                    THEN Dot(d, e1)
                    ELSE residual * Sign(lateral) * Far]

\* What floating point leaves of the pivot when the model's two directions are
\* parallel.  Equal cardinal orientations give E two columns that cancel
\* exactly: the pivot is 0.  Opposite cardinal orientations do not: sin(pi) is
\* 1.2e-16, not 0, and the pivot is tiny but not 0.  Equal orientations whose
\* sine and cosine are both inexact may end either way.
Residuals(p1, p2) ==
    IF p1.o = p2.o
    THEN IF p1.o \in {Deg(0), Deg(90), Deg(180), Deg(270)}
         THEN {0}
         ELSE {-1, 0, 1}
    ELSE {-1, 1}

path_V(p1, p2, residual) ==
    LET e1 == rotated_basis(p1.o).e1
        e2 == rotated_basis(p2.o).e1
        pt1 == Center(p1)
        pt3 == Center(p2)
        sol == solve_V(e1, e2, Sub(pt3, pt1), residual)
        pt2 == Along(pt1, sol.t, e1)
    IN  IF ~sol.ok
        THEN Raise("LinAlgError")
        ELSE Path(<<pt1, pt2, pt3>>, "V")

\* relative orientation as path_manhattan computes it
orel(p1, p2) == Round3(Abs(Mod360(p2.o - p1.o)))

\* radius = radius + 0.1
effective_radius(radius) == radius + Scale \div 10

\* one turn whenever port 2 is far enough to either side
manhattan_takes_L_either(o, x, y, R) ==
    /\ Abs(y) > R
    /\ x > R

\* the orthogonal case connects directly with one turn
manhattan_takes_L(o, x, y, R) ==
    /\ \/ (o = Deg(90) /\ y < -1 * R)
       \/ (o = Deg(270) /\ y > R)
    /\ x > R

\* a last leg that is always one radius long
manhattan_J_length2_fixed(o, y, R) ==
    R

manhattan_J_length2(o, y, R) ==
    LET direction == IF o = Deg(270) THEN -1 ELSE 1
    IN  IF Abs(R + direction * y) < 2 * R
        THEN 2 * R - direction * y
        ELSE R

\* a first leg that is always one radius long
manhattan_J_length1_fixed(x, R) ==
    R

manhattan_J_length1(x, R) ==
    IF Abs(R - x) < 2 * R THEN 2 * R + x ELSE R

manhattan_takes_C(o, x, y, R) ==
    \/ (o = Deg(180) /\ x <= 2 * R)
    \/ Abs(y) < 2 * R

manhattan_C_left1(y, R) ==
    LET left1 == IF Abs(y) < 4 * R THEN Abs(y) + 2 * R ELSE 2 * R
        y_direction == IF y < 0 THEN -1 ELSE 1
    IN  y_direction * left1

manhattan_C_length1(o, x, R) ==
    LET length2 == R
        x_direction == IF o = Deg(180) THEN -1 ELSE 1
        segmentx_length == Abs(x + x_direction * length2 - R)
    IN  IF segmentx_length < 2 * R
        THEN x + x_direction * length2 + 2 * R
        ELSE R

\* a first leg that never reaches past port 2
manhattan_U_length1_short(o, x, R) ==
    R

manhattan_U_length1(o, x, R) ==
    IF o = Deg(0) /\ x > 0 THEN R + x ELSE R

path_manhattan(p1, p2, radius) ==
    LET R == effective_radius(radius)
        x == xrel(p1, p2)
        y == yrel(p1, p2)
        o == orel(p1, p2)
    IN  IF o \notin {Deg(0), Deg(90), Deg(180), Deg(270), Deg(360)}
        THEN Raise("ValueError")
        ELSE IF o \in {Deg(90), Deg(270)}
        THEN IF manhattan_takes_L(o, x, y, R)
             THEN path_L(p1, p2)
             ELSE path_J(p1, p2, manhattan_J_length1(x, R),
                         manhattan_J_length2(o, y, R))
        ELSE IF o = Deg(180) /\ y = 0 /\ x > 0
        THEN path_straight(p1, p2)
        ELSE IF manhattan_takes_C(o, x, y, R)
        THEN path_C(p1, p2, manhattan_C_length1(o, x, R),
                    manhattan_C_left1(y, R), R)
        ELSE path_U(p1, p2, manhattan_U_length1(o, x, R))

---------------------------------------------------------------------------
(* Inputs of the synthesizers *)

\* port 2 lies -MaxCoord .. MaxCoord steps of 0.1 from port 1 along each axis
MaxCoord == 8

\* bend radii range over 0 .. MaxRadius steps of 0.1
MaxRadius == 1

\* the shapes with extra length arguments are applied to the ports that lie
\* within MaxNear steps of each other along each axis
MaxNear == 3

Step == Scale \div 10

Coords == {k * Step : k \in -MaxCoord .. MaxCoord}

\* port 2 sits on the grid or, next to port 1, off the grid by less than
\* np.round(., 3) keeps
Fine(cx, cy) ==
    IF Abs(cx) <= Step /\ Abs(cy) <= Step
    THEN {<<0, 0>>, <<4, 4>>}
    ELSE {<<0, 0>>}

\* the four cardinal directions, a diagonal one, and one that np.round(., 3)
\* takes to 360
Orients == {Deg(0), Deg(90), Deg(180), Deg(270), Deg(45), Deg(360) - 4}

Radii == {k * Step : k \in 0 .. MaxRadius}

\* values of the extra length arguments (length1, length2)
Lens == {0, 3 * Step}

\* values of (length1, left1, length2) of path_C
ArgsC ==
    {<<0, -2 * Step, 3 * Step>>, <<3 * Step, 3 * Step, 0>>,
     <<3 * Step, -2 * Step, 3 * Step>>, <<0, 3 * Step, 0>>}

Origin1 == <<Step, -2 * Step>>

Near(p1, p2) ==
    /\ Abs(p2.x - p1.x) <= MaxNear * Step + 4
    /\ Abs(p2.y - p1.y) <= MaxNear * Step + 4

NoCall == [op |-> "none", radius |-> 0, length1 |-> 0, left1 |-> 0, length2 |-> 0]

NoResult == [status |-> "none", pts |-> <<>>, shape |-> "none"]

InitSharp ==
    /\ \E o \in Orients :
         port1 = [name |-> "o1", x |-> Origin1[1], y |-> Origin1[2], o |-> o]
    /\ \E o \in Orients, cx \in Coords, cy \in Coords :
       \E f \in Fine(cx, cy) :
         port2 = [name |-> "o2", x |-> Origin1[1] + cx + f[1],
                  y |-> Origin1[2] + cy + f[2], o |-> o]
    /\ call = NoCall
    /\ result = NoResult
    /\ list_ports = <<>>
    /\ args = [entry |-> "none"]
    /\ ret = [status |-> "none"]
    /\ NoWatch

Apply(op, radius, length1, left1, length2, res) ==
    /\ call.op = "none"
    /\ call' = [op |-> op, radius |-> radius, length1 |-> length1,
                left1 |-> left1, length2 |-> length2]
    /\ result' = res
    /\ UNCHANGED <<port1, port2, list_ports, args, ret, watch_vars>>

CallStraight ==
    /\ Near(port1, port2)
    /\ Apply("straight", 0, 0, 0, 0, path_straight(port1, port2))

CallL ==
    /\ Near(port1, port2)
    /\ Apply("L", 0, 0, 0, 0, path_L(port1, port2))

CallU ==
    /\ Near(port1, port2)
    /\ \E l1 \in Lens : Apply("U", 0, l1, 0, 0, path_U(port1, port2, l1))

CallJ ==
    /\ Near(port1, port2)
    /\ \E l1 \in Lens, l2 \in Lens :
         Apply("J", 0, l1, 0, l2, path_J(port1, port2, l1, l2))

CallC ==
    /\ Near(port1, port2)
    /\ \E a \in ArgsC :
         Apply("C", 0, a[1], a[2], a[3], path_C(port1, port2, a[1], a[2], a[3]))

CallZ ==
    /\ Near(port1, port2)
    /\ \E l1 \in Lens, l2 \in Lens :
         Apply("Z", 0, l1, 0, l2, path_Z(port1, port2, l1, l2))

CallV ==
    /\ Near(port1, port2)
    /\ \E residual \in Residuals(port1, port2) :
         Apply("V", 0, 0, 0, 0, path_V(port1, port2, residual))

CallManhattan ==
    /\ call.op = "none"
    /\ \E r \in Radii :
         Apply("manhattan", r, 0, 0, 0, path_manhattan(port1, port2, r))

NextSharp ==
    \/ CallStraight
    \/ CallL
    \/ CallU
    \/ CallJ
    \/ CallC
    \/ CallZ
    \/ CallV
    \/ CallManhattan

SpecSharp == InitSharp /\ [][NextSharp]_vars


---------------------------------------------------------------------------
(* route_ports_to_side.py: the side-bundle router *)

MinOf(S) == CHOOSE m \in S : \A n \in S : m <= n

MaxOf(S) == CHOOSE m \in S : \A n \in S : m >= n

\* sort_key_west_to_east, sort_key_east_to_west, sort_key_south_to_north,
\* sort_key_north_to_south
sort_key(key, p) ==
    CASE key = "west_to_east" -> p.x
      [] key = "east_to_west" -> -p.x
      [] key = "south_to_north" -> p.y
      [] key = "north_to_south" -> -p.y

\* the list left as it is
Unsorted(s, key) ==
    s

\* list.sort(key=...): ascending and stable
Sort(s, key) ==
    LET n == Len(s)
        before(j, i) ==
            \/ sort_key(key, s[j]) < sort_key(key, s[i])
            \/ (sort_key(key, s[j]) = sort_key(key, s[i]) /\ j < i)
        rank(i) == 1 + Cardinality({j \in 1 .. n : before(j, i)})
    IN  [r \in 1 .. n |-> s[CHOOSE i \in 1 .. n : rank(i) = r]]

\* the index at which the slices s[:k] and s[k:] cut a list of length n
SliceIndex(k, n) == IF k < 0 THEN Max(0, n + k) ELSE Min(k, n)

\* s[:]
SliceWhole(s, k) ==
    s

\* s[:k]
SliceTo(s, k) ==
    SubSeq(s, 1, SliceIndex(k, Len(s)))

\* s[k + 1:]
SliceFromNext(s, k) ==
    SubSeq(s, SliceIndex(k, Len(s)) + 2, Len(s))

\* s[k:]
SliceFrom(s, k) ==
    SubSeq(s, SliceIndex(k, Len(s)) + 1, Len(s))

\* Port.copy(name=...)
copy(p, name) == [p EXCEPT !.name = name]

\* Port.flip(), flipped(port): a copy facing the opposite way
flip(p) == [p EXCEPT !.o = (p.o + Deg(180)) % Deg(360)]

\* the routing function called without the caller's start_straight_length
Route_default(step, radius) ==
    [src |-> step.src, dst |-> step.new, start_straight_length |-> Scale \div 100,
     radius |-> radius]

\* what the injected routing function is called with, and returns a route for
Route(step, radius) ==
    [src |-> step.src, dst |-> step.new, start_straight_length |-> step.ssl,
     radius |-> radius]

\* The add_port calls of one bundle, in order.  steps[i] = [src, new, ssl, skip,
\* grp]: the port, its new port, the start_straight_length handed on, whether
\* add_port returns before routing, and the loop that makes the call.  The
\* routing function raises for the ports whose names are in fails.  The run stops
\* at the first call that raises (failed_at, 0 when none does); routes and ports
\* are the lists l_elements and l_ports as they stand then.
run_add_port(steps, radius, fails) ==
    LET n == Len(steps)
        bad == {i \in 1 .. n : ~steps[i].skip /\ steps[i].src.name \in fails}
        failed_at == IF bad = {} THEN 0 ELSE MinOf(bad)
        upto == IF failed_at = 0 THEN n ELSE failed_at - 1
        done == SubSeq(steps, 1, upto)
        routed == SelectSeq(done, LAMBDA st : ~st.skip)
        tried == SelectSeq(SubSeq(steps, 1, IF failed_at = 0 THEN n ELSE failed_at),
                           LAMBDA st : ~st.skip)
    IN  [failed_at |-> failed_at,
         failed |-> IF failed_at = 0 THEN <<>> ELSE <<steps[failed_at]>>,
         routes |-> [k \in 1 .. Len(routed) |-> Route(routed[k], radius)],
         ports |-> [k \in 1 .. upto |-> flip(done[k].new)],
         calls |-> [k \in 1 .. Len(tried) |-> Route(tried[k], radius)],
         trace |-> [k \in 1 .. upto |->
                      [name |-> done[k].src.name, grp |-> done[k].grp]]]

Raised(err, names, run) ==
    [status |-> "error", err |-> err, names |-> names,
     routes |-> <<>>, ports |-> <<>>, calls |-> run.calls, trace |-> run.trace]

Returned(run) ==
    [status |-> "ok", err |-> "", names |-> <<>>,
     routes |-> run.routes, ports |-> run.ports, calls |-> run.calls,
     trace |-> run.trace]

NoRun == [failed_at |-> 0, failed |-> <<>>, routes |-> <<>>, ports |-> <<>>,
          calls |-> <<>>, trace |-> <<>>]

\* route_ports_to_x: the exception of the routing function is not caught
finish_x(run) ==
    IF run.failed_at # 0
    THEN Raised("RoutingError", <<>>, run)
    ELSE Returned(run)

\* the exception swallowed, what was routed so far returned
finish_partial(run) ==
    Returned(run)

\* route_ports_to_y: add_port raises
\* ValueError(f"Could not connect {p.name!r} to {new_port.name!r}")
finish_y(run) ==
    IF run.failed_at # 0
    THEN Raised("ValueError",
                <<run.failed[1].src.name, run.failed[1].new.name>>, run)
    ELSE Returned(run)

\* start_straight_length = 0.01 (the default)
StartStraightDefault == Scale \div 100

\* a target is a side name or a coordinate
IsSide(t) == t.kind = "side"

SideTarget(side) == [kind |-> "side", side |-> side, v |-> 0]

NumTarget(v) == [kind |-> "num", side |-> "", v |-> v]

\* an optional argument: None or a number
None == <<>>

Some(v) == <<v>>

\* y_optical_bot never stepped
y_optical_bot_stuck(y0_bottom, k, separation) ==
    y0_bottom

\* y_optical_bot after k ports took a lane below the bundle
y_optical_bot(y0_bottom, k, separation) ==
    y0_bottom - k * separation

\* y_optical_top after k ports took a lane above the bundle
y_optical_top(y0_top, k, separation) ==
    y0_top + k * separation

\* the first lane one radius outside the bundle
clearance_x_radius(radius, separation) ==
    radius

\* a = epsilon + max(radius, separation), epsilon = 1.0
clearance_x(radius, separation) ==
    Scale + Max(radius, separation)

\* extension_length taken as given
outward_never(t, low, extension_length) ==
    extension_length

\* a positive extension_length counts outward for the target named low
outward(t, low, extension_length) ==
    IF IsSide(t) /\ t.side = low /\ extension_length > 0
    THEN -extension_length
    ELSE extension_length

\* x <= min(xs)
west_of_all_or_level(x, xs) ==
    x <= MinOf(xs)

\* x < min(xs)
west_of_all(x, xs) ==
    x < MinOf(xs)

\* x > max(xs)
east_of_all(x, xs) ==
    x > MaxOf(xs)

route_ports_to_x(lp, x, a) ==
    LET north_ports == SelectSeq(lp, LAMBDA p : p.o = Deg(90))
        south_ports == SelectSeq(lp, LAMBDA p : p.o = Deg(270))
        east_ports == SelectSeq(lp, LAMBDA p : p.o = Deg(0))
        west_ports == SelectSeq(lp, LAMBDA p : p.o = Deg(180))
        epsilon == Scale
        a0 == clearance_x(a.radius, a.separation)
        bx == IF a.dx_start # 0 THEN epsilon + Max(a.radius, a.dx_start) ELSE a0
        by == IF a.dy_start # 0 THEN epsilon + Max(a.radius, a.dy_start) ELSE a0
        xs == {lp[i].x : i \in DOMAIN lp}
        ys == {lp[i].y : i \in DOMAIN lp}
        y0_bottom ==
            (IF a.lane0_lo = None THEN MinOf(ys) - by ELSE a.lane0_lo[1])
            - a.extend_lo
        y0_top ==
            (IF a.lane0_hi = None
             THEN MaxOf(ys) + (IF a.dy_start # 0
                               THEN Max(a.radius, a.dy_start) ELSE a0)
             ELSE a.lane0_hi[1])
            + a.extend_hi
        extension_length == outward(x, "west", a.extension_length)
        xv == IF IsSide(x)
              THEN IF x.side = "east" THEN MaxOf(xs) + bx ELSE MinOf(xs) - bx
              ELSE x.v
        west == west_of_all(xv, xs)
        angle == IF west THEN Deg(0) ELSE Deg(180)
        sort_key_north == IF west THEN "west_to_east" ELSE "east_to_west"
        sort_key_south == sort_key_north
        forward_ports == IF west THEN west_ports ELSE east_ports
        backward_ports == IF west THEN east_ports ELSE west_ports
        north == Sort(north_ports, sort_key_north)
        south == Sort(south_ports, sort_key_south)
        forward == Sort(forward_ports, "south_to_north")
        backward == Sort(backward_ports, "south_to_north")
        backward_ports_thru_south ==
            Sort(SliceTo(backward, a.split), "south_to_north")
        backward_ports_thru_north ==
            Sort(SliceFrom(backward, a.split), "north_to_south")
        add_port(p, y, ssl, grp) ==
            [src |-> p,
             new |-> [copy(p, p.name \o "_new") EXCEPT
                        !.o = angle, !.x = xv + extension_length, !.y = y],
             ssl |-> ssl, skip |-> FALSE, grp |-> grp]
        max_x == MaxOf(xs)
        min_x == MinOf(xs)
        section(p) ==
            IF angle = Deg(0) /\ p.x < max_x THEN max_x - p.x
            ELSE IF angle = Deg(180) /\ p.x > min_x THEN p.x - min_x
            ELSE 0
        nS == Len(south)
        nN == Len(north)
        nBN == Len(backward_ports_thru_north)
        steps_south ==
            [k \in 1 .. nS |->
                add_port(south[k], y_optical_bot(y0_bottom, k - 1, a.separation),
                         a.start_straight_length, "south")]
        steps_forward ==
            [k \in 1 .. Len(forward) |->
                add_port(forward[k], forward[k].y, a.start_straight_length,
                         "forward")]
        steps_north ==
            [k \in 1 .. nN |->
                add_port(north[k], y_optical_top(y0_top, k - 1, a.separation),
                         a.start_straight_length, "north")]
        steps_thru_north ==
            [k \in 1 .. nBN |->
                add_port(backward_ports_thru_north[k],
                         y_optical_top(y0_top, nN + k - 1, a.separation),
                         (a.start_straight_length + (k - 1) * a.separation)
                            + section(backward_ports_thru_north[k]),
                         "backward_thru_north")]
        steps_thru_south ==
            [k \in 1 .. Len(backward_ports_thru_south) |->
                add_port(backward_ports_thru_south[k],
                         y_optical_bot(y0_bottom, nS + k - 1, a.separation),
                         (a.start_straight_length + (nBN + k - 1) * a.separation)
                            + section(backward_ports_thru_south[k]),
                         "backward_thru_south")]
        steps == steps_south \o steps_forward \o steps_north
                    \o steps_thru_north \o steps_thru_south
    IN  IF lp = <<>>
        THEN Raised("ValueError", <<>>, NoRun)
        ELSE IF IsSide(x) /\ x.side \notin {"east", "west"}
        THEN Raised("ValueError", <<>>, NoRun)
        ELSE IF ~west_of_all(xv, xs) /\ ~east_of_all(xv, xs)
        THEN Raised("ValueError", <<>>, NoRun)
        ELSE finish_x(run_add_port(steps, a.radius, a.fails))

\* np.sum(np.abs((c1 - c2) ** 2)), saturating above 1 um per axis
SumSq(c1, c2) ==
    LET dx == Abs(c1[1] - c2[1])
        dy == Abs(c1[2] - c2[2])
    IN  IF dx > Scale \/ dy > Scale THEN 2 * Scale * Scale ELSE dx * dx + dy * dy

\* ... < 1e-12: 1e-12 um^2 is less than one squared unit of the model
Coincide(c1, c2) == SumSq(c1, c2) < 1

\* x_optical_left after k ports took a lane left of the bundle
x_optical_left(x0_left, k, separation) ==
    x0_left - k * separation

\* x_optical_right after k ports took a lane right of the bundle
x_optical_right(x0_right, k, separation) ==
    x0_right + k * separation

\* the clearance of route_ports_to_x used for route_ports_to_y as well
clearance_y_epsilon(radius, separation) ==
    Scale + Max(radius, separation)

\* a = radius + max(radius, separation)
clearance_y(radius, separation) ==
    radius + Max(radius, separation)

\* y <= min(ys)
south_of_all(y, ys) ==
    y <= MinOf(ys)

\* y >= max(ys)
north_of_all(y, ys) ==
    y >= MaxOf(ys)

\* every backward port given the caller's start_straight_length
start_straight_length_section_flat(start_straight_length, k, separation) ==
    start_straight_length

\* start_straight_length_section of the k-th port (from 0) of one half of the
\* backward ports: it starts at start_straight_length and grows by separation
\* after each port
start_straight_length_section(start_straight_length, k, separation) ==
    start_straight_length + k * separation

route_ports_to_y(lp, y, a) ==
    LET extension_length == outward(y, "south", a.extension_length)
        da == Deg(45)
        north_ports ==
            SelectSeq(lp, LAMBDA p : p.o > Deg(90) - da /\ p.o < Deg(90) + da)
        south_ports ==
            SelectSeq(lp, LAMBDA p : p.o > Deg(270) - da /\ p.o < Deg(270) + da)
        east_ports ==
            SelectSeq(lp, LAMBDA p : p.o < da \/ p.o > Deg(360) - da)
        west_ports ==
            SelectSeq(lp, LAMBDA p : p.o < Deg(180) + da /\ p.o > Deg(180) - da)
        epsilon == Scale
        a0 == clearance_y(a.radius, a.separation)
        bx == IF a.dx_start # 0 THEN epsilon + Max(a.radius, a.dx_start) ELSE a0
        by == IF a.dy_start # 0 THEN epsilon + Max(a.radius, a.dy_start) ELSE a0
        xs == {lp[i].x : i \in DOMAIN lp}
        ys == {lp[i].y : i \in DOMAIN lp}
        x0_left ==
            (IF a.lane0_lo = None THEN MinOf(xs) - bx ELSE a.lane0_lo[1])
            - a.extend_lo
        x0_right ==
            (IF a.lane0_hi = None
             THEN MaxOf(xs) + (IF a.dx_start # 0
                               THEN Max(a.radius, a.dx_start) ELSE a0)
             ELSE a.lane0_hi[1])
            + a.extend_hi
        reach(p) == RoundDiv(a0 * Abs(Cos(p.o)), Scale)
        yv == IF IsSide(y)
              THEN IF y.side = "north"
                   THEN MaxOf({lp[i].y + reach(lp[i]) : i \in DOMAIN lp}) + by
                   ELSE MinOf({lp[i].y - reach(lp[i]) : i \in DOMAIN lp}) - by
              ELSE y.v
        below == south_of_all(yv, ys)
        sort_key_east == IF below THEN "south_to_north" ELSE "north_to_south"
        sort_key_west == sort_key_east
        forward_ports == IF below THEN south_ports ELSE north_ports
        backward_ports == IF below THEN north_ports ELSE south_ports
        angle == IF below THEN Deg(90) ELSE -Deg(90)
        west == Sort(west_ports, sort_key_west)
        east == Sort(east_ports, sort_key_east)
        forward == Sort(forward_ports, "west_to_east")
        backward == Sort(Sort(backward_ports, "east_to_west"), "west_to_east")
        backward_ports_thru_west ==
            Sort(SliceTo(backward, a.split), "west_to_east")
        backward_ports_thru_east ==
            Sort(SliceFrom(backward, a.split), "east_to_west")
        add_port(p, x, ssl, grp) ==
            LET new_port == [copy(p, p.name) EXCEPT
                               !.o = angle, !.x = x, !.y = yv + extension_length]
            IN  [src |-> p, new |-> new_port, ssl |-> ssl,
                 skip |-> Coincide(Center(new_port), Center(p)), grp |-> grp]
        nW == Len(west)
        nE == Len(east)
        steps_west ==
            [k \in 1 .. nW |->
                add_port(west[k], x_optical_left(x0_left, k - 1, a.separation),
                         a.start_straight_length, "west")]
        steps_forward ==
            [k \in 1 .. Len(forward) |->
                add_port(forward[k], forward[k].x, a.start_straight_length,
                         "forward")]
        steps_east ==
            [k \in 1 .. nE |->
                add_port(east[k], x_optical_right(x0_right, k - 1, a.separation),
                         a.start_straight_length, "east")]
        steps_thru_east ==
            [k \in 1 .. Len(backward_ports_thru_east) |->
                add_port(backward_ports_thru_east[k],
                         x_optical_right(x0_right, nE + k - 1, a.separation),
                         start_straight_length_section(
                             a.start_straight_length, k - 1, a.separation),
                         "backward_thru_east")]
        steps_thru_west ==
            [k \in 1 .. Len(backward_ports_thru_west) |->
                add_port(backward_ports_thru_west[k],
                         x_optical_left(x0_left, nW + k - 1, a.separation),
                         start_straight_length_section(
                             a.start_straight_length, k - 1, a.separation),
                         "backward_thru_west")]
        steps == steps_west \o steps_forward \o steps_east
                    \o steps_thru_east \o steps_thru_west
    IN  IF lp = <<>>
        THEN Raised("ValueError", <<>>, NoRun)
        ELSE IF IsSide(y) /\ y.side \notin {"north", "south"}
        THEN Raised("TypeError", <<>>, NoRun)
        ELSE IF ~south_of_all(yv, ys) /\ ~north_of_all(yv, ys)
        THEN Raised("ValueError", <<>>, NoRun)
        ELSE finish_y(run_add_port(steps, a.radius, a.fails))

\* route_ports_to_side(ports, side, x, y, routing_func, **kwargs); a.x and a.y
\* are None or a coordinate
route_ports_to_side(ports, side, a) ==
    IF ports = <<>>
    THEN Returned(NoRun)
    ELSE IF side \in {"north", "south"}
    THEN route_ports_to_y(ports,
                          IF a.y # None THEN NumTarget(a.y[1]) ELSE SideTarget(side),
                          a)
    ELSE IF side \in {"west", "east"}
    THEN route_ports_to_x(ports,
                          IF a.x # None THEN NumTarget(a.x[1]) ELSE SideTarget(side),
                          a)
    ELSE Raised("ValueError", <<>>, NoRun)

---------------------------------------------------------------------------
(* Inputs of the side-bundle router *)

\* a bundle holds 0 .. MaxPorts ports
MaxPorts == 2

\* 1 um
Um == Scale

\* where a port may sit: two ports level with each other, two above each other
Positions == {<<0, 0>>, <<Um, 0>>, <<0, Um>>}

\* the four cardinal directions and a diagonal one
SideOrients == {Deg(0), Deg(90), Deg(180), Deg(270), Deg(45)}

PortName(i) == "p" \o ToString(i)

DefaultArgs ==
    [separation |-> 2 * Um, radius |-> Um, split |-> 0,
     start_straight_length |-> StartStraightDefault, extension_length |-> 0,
     lane0_lo |-> None, lane0_hi |-> None, extend_lo |-> 0, extend_hi |-> 0,
     dx_start |-> 0, dy_start |-> 0, fails |-> {}]

\* the keyword arguments tried: the defaults, and the defaults changed in one
\* respect
Variants ==
    {DefaultArgs,
     [DefaultArgs EXCEPT !.separation = Um, !.radius = 2 * Um],
     [DefaultArgs EXCEPT !.separation = Um, !.radius = 0],
     [DefaultArgs EXCEPT !.split = 1, !.start_straight_length = Um],
     [DefaultArgs EXCEPT !.split = -1],
     [DefaultArgs EXCEPT !.extension_length = Um],
     [DefaultArgs EXCEPT !.extension_length = -3 * Um],
     [DefaultArgs EXCEPT !.lane0_lo = Some(0), !.lane0_hi = Some(Um),
                         !.extend_lo = Um, !.extend_hi = Um],
     [DefaultArgs EXCEPT !.dx_start = 3 * Um, !.dy_start = 3 * Um]}

\* ... and the defaults with a routing function that raises for one port
Failing(lp) == {[DefaultArgs EXCEPT !.fails = {lp[i].name}] : i \in DOMAIN lp}

\* coordinates of a target line: beyond the ports, between them, and on them
Lines == {-3 * Um, Um \div 2, Um}

Sides == {"north", "south", "east", "west", "up"}

NoArgs == [entry |-> "none"]

NoRet == [status |-> "none"]

InitSide ==
    /\ \E n \in 0 .. MaxPorts :
         \E f \in [1 .. n -> Positions \X SideOrients] :
            list_ports = [i \in 1 .. n |->
                            [name |-> PortName(i), x |-> f[i][1][1],
                             y |-> f[i][1][2], o |-> f[i][2]]]
    /\ args = NoArgs
    /\ ret = NoRet
    /\ port1 = [name |-> "o1", x |-> 0, y |-> 0, o |-> 0]
    /\ port2 = [name |-> "o2", x |-> 0, y |-> 0, o |-> 0]
    /\ call = NoCall
    /\ result = NoResult
    /\ NoWatch

\* the caller's list sorted where it stands
list_ports_sorted(lp) ==
    Sort(lp, "south_to_north")

\* The caller's list after a call.  The routers build their buckets as new
\* lists ([p for p in list_ports if ...]) and sort those, and add_port sets
\* orientation and center of p.copy(), never of p: nothing is written to the
\* list or to a port in it.
list_ports_after(lp) ==
    lp

Called(entry, side, target, x, y, a, res) ==
    /\ args.entry = "none"
    /\ args' = [entry |-> entry, side |-> side, target |-> target,
                x |-> x, y |-> y, kw |-> a]
    /\ ret' = res
    /\ list_ports' = list_ports_after(list_ports)
    /\ UNCHANGED <<port1, port2, call, result, watch_vars>>

\* route_ports_to_side(ports, side, x=..., y=..., **kw)
CallRoutePortsToSide ==
    /\ args.entry = "none"
    /\ \E side \in Sides, a \in Variants \cup Failing(list_ports) :
       \E xy \in {None} \cup (IF side \in {"north", "east"}
                              THEN {Some(v) : v \in Lines} ELSE {}) :
         LET x == IF side = "east" THEN xy ELSE None
             y == IF side = "north" THEN xy ELSE None
             kw == a @@ [x |-> x, y |-> y]
         IN  Called("side", side, SideTarget(side), x, y, a,
                    route_ports_to_side(list_ports, side, kw))

\* route_ports_to_x(list_ports, x, ...) called directly
CallRoutePortsToX ==
    /\ args.entry = "none"
    /\ \E x \in {SideTarget("east"), SideTarget("west"), SideTarget("north"),
                 NumTarget(-3 * Um)} :
         Called("x", "", x, None, None, DefaultArgs,
                route_ports_to_x(list_ports, x, DefaultArgs))

\* route_ports_to_y(list_ports, y, ...) called directly
CallRoutePortsToY ==
    /\ args.entry = "none"
    /\ \E y \in {SideTarget("north"), SideTarget("south"), SideTarget("east"),
                 NumTarget(Um)} :
         Called("y", "", y, None, None, DefaultArgs,
                route_ports_to_y(list_ports, y, DefaultArgs))

NextSide ==
    \/ CallRoutePortsToSide
    \/ CallRoutePortsToX
    \/ CallRoutePortsToY

SpecSide == InitSide /\ [][NextSide]_vars

---------------------------------------------------------------------------
(* watch.py: YamlEventHandler *)

\* A path is [dir, stem, ext]: dir/stem.ext.  An event is handled as soon as
\* the change of the file system that causes it has happened.

\* directories under the watched path, file names and extensions
Dirs == {"d1", "d2"}

Stems == {"a", "b"}

Exts == {"pic.yml", "txt"}

Paths == [dir : Dirs, stem : Stems, ext : Exts]

\* at most MaxFiles files exist at a time
MaxFiles == 2

\* no cell function registered under a name
NoCell == [dir |-> "", stem |-> "", ext |-> ""]

\* path.endswith(".pic.yml")
is_pic_yml(path) == path.ext = "pic.yml"

\* cell_name = filepath.stem.split(".")[0]
cell_name(path) == path.stem

\* parser(filepath, name=cell_name): the cell function that builds the cell from
\* the file at filepath
parser(filepath) == filepath

\* pdk.register_cells_yaml(**{name: function}, update=update): a name already
\* registered is replaced when update is true; otherwise ValueError is raised,
\* which update_cell catches and prints
register_cells_yaml(reg, name, function, update) ==
    IF reg[name] # NoCell /\ ~update
    THEN reg
    ELSE [reg EXCEPT ![name] = function]

\* pdk.remove_cell(cell_name)
remove_cell(reg, name) == [reg EXCEPT ![name] = NoCell]

\* update_cell(src_path, update); st = [cells, CACHE]
update_cell(st, src_path, update) ==
    [cells |-> register_cells_yaml(st.cells, cell_name(src_path),
                                   parser(src_path), update),
     CACHE |-> st.CACHE \ {cell_name(src_path)}]

\* get_component(filepath), fs the files that exist: the cell is registered
\* anew and built; builds says whether cell_func() returns a component, which
\* is then cached under the cell's name, or raises, which is caught
get_component(st, filepath, fs, builds) ==
    IF filepath \in fs /\ is_pic_yml(filepath)
    THEN LET upd == update_cell(st, filepath, TRUE)
         IN  IF builds
             THEN [upd EXCEPT !.CACHE = @ \cup {cell_name(filepath)}]
             ELSE upd
    ELSE st

Watching == [cells |-> cells, CACHE |-> CACHE]

Handled(type, src, dest, fs, st) ==
    /\ files' = fs
    /\ cells' = st.cells
    /\ CACHE' = st.CACHE
    /\ event' = [type |-> type, src |-> src, dest |-> dest]
    /\ UNCHANGED <<port1, port2, call, result, list_ports, args, ret>>

\* a file is created: on_created(event)
on_created ==
    \E src \in Paths \ files, builds \in BOOLEAN :
       /\ Cardinality(files) < MaxFiles
       /\ LET fs == files \cup {src}
          IN  Handled("created", src, src, fs,
                      IF is_pic_yml(src)
                      THEN get_component(update_cell(Watching, src, FALSE),
                                         src, fs, builds)
                      ELSE Watching)

\* a file is renamed, onto another file or not: on_moved(event)
on_moved ==
    \E src \in files, dest \in Paths, builds \in BOOLEAN :
       /\ dest # src
       /\ LET fs == (files \ {src}) \cup {dest}
          IN  Handled("moved", src, dest, fs,
                      IF is_pic_yml(dest)
                      THEN get_component(update_cell(Watching, dest, FALSE),
                                         src, fs, builds)
                      ELSE Watching)

\* a file is deleted: on_deleted(event)
on_deleted ==
    \E src \in files :
       Handled("deleted", src, src, files \ {src},
               IF is_pic_yml(src)
               THEN [Watching EXCEPT !.cells = remove_cell(@, cell_name(src))]
               ELSE Watching)

\* a file is written to: on_modified(event)
on_modified ==
    \E src \in files, builds \in BOOLEAN :
       Handled("modified", src, src, files,
               IF is_pic_yml(src)
               THEN get_component(Watching, src, files, builds)
               ELSE Watching)

\* YamlEventHandler(path=path) on an empty directory
InitWatch ==
    /\ files = {}
    /\ cells = [n \in Stems |-> NoCell]
    /\ CACHE = {}
    /\ event = [type |-> "none"]
    /\ port1 = [name |-> "o1", x |-> 0, y |-> 0, o |-> 0]
    /\ port2 = [name |-> "o2", x |-> 0, y |-> 0, o |-> 0]
    /\ call = NoCall
    /\ result = NoResult
    /\ list_ports = <<>>
    /\ args = NoArgs
    /\ ret = NoRet

NextWatch ==
    \/ on_created
    \/ on_moved
    \/ on_deleted
    \/ on_modified

SpecWatch == InitWatch /\ [][NextWatch]_vars

---------------------------------------------------------------------------
(* Properties of the waypoint synthesizers *)

Ok == result.status = "ok"

Failed == result.status = "error"

\* length of the segment a -> b: exact for a segment parallel to an axis, a
\* lower bound of the Euclidean length otherwise
SegLen(a, b) == Max(Abs(b[1] - a[1]), Abs(b[2] - a[2]))

\* the segments of the returned path that are neither the first nor the last
Intermediate == 2 .. (Len(result.pts) - 2)

Cardinal == {Deg(0), Deg(90), Deg(180), Deg(270)}

\* orientation of b relative to a, mod 360, to three decimals
RelOrient(a, b) == Round3((b.o - a.o) % Deg(360))

\* C1: for two ports whose relative orientation is 0, 90, 180 or 270 and a
\* radius r > 0, path_manhattan returns a path, and every segment of it other
\* than the first and the last is at least r long.
C1_ManhattanIntermediate ==
    (call.op = "manhattan" /\ call.radius > 0
        /\ RelOrient(port1, port2) \in Cardinal)
    => /\ Ok
       /\ \A i \in Intermediate :
            SegLen(result.pts[i], result.pts[i + 1]) >= call.radius

\* a C path (three intermediate segments) for a positive radius
C1_Witness ==
    /\ call.op = "manhattan" /\ call.radius > 0
    /\ RelOrient(port1, port2) \in Cardinal
    /\ Ok /\ result.shape = "C" /\ Len(result.pts) = 6

\* C2: path_straight succeeds if and only if the orientations are 180 degrees
\* apart, port 2 has no lateral offset and a positive forward offset (offsets
\* as the code rounds them); otherwise it raises and returns no path.
C2_StraightIffFacing ==
    call.op = "straight"
    => /\ Ok <=> /\ RelOrient(port1, port2) = Deg(180)
                 /\ yrel(port1, port2) = 0
                 /\ xrel(port1, port2) > 0
       /\ Failed => result.pts = <<>>

\* number of waypoints of each shape
PointCount(shape) ==
    CASE shape = "straight" -> 2
      [] shape = "L" -> 3
      [] shape = "U" -> 4
      [] shape = "J" -> 5
      [] shape = "C" -> 6
      [] shape = "Z" -> 4
      [] shape = "V" -> 3

\* C8: every shape returns its fixed number of waypoints whenever it returns,
\* and path_manhattan returns one of the shapes straight, L, U, J, C.
C8_PointCounts ==
    Ok => /\ call.op # "manhattan" => Len(result.pts) = PointCount(call.op)
          /\ call.op = "manhattan"
               => /\ result.shape \in {"straight", "L", "U", "J", "C"}
                  /\ Len(result.pts) = PointCount(result.shape)

\* an L whose first two waypoints coincide still has three waypoints
C8_Witness ==
    /\ call.op = "L" /\ Ok
    /\ Len(result.pts) = 3 /\ result.pts[1] = result.pts[2]

\* C9: no returned path has two consecutive waypoints that coincide.
C9_NoZeroLengthSegment ==
    Ok => \A i \in 1 .. (Len(result.pts) - 1) : result.pts[i] # result.pts[i + 1]

\* C10: L and J fail exactly when the orientation difference is not 90 or 270,
\* U and C exactly when it is not 0, 180 or 360, manhattan exactly when it is
\* not 0, 90, 180, 270 or 360; a failed call returns no waypoints.
C10_OrientationPrecondition ==
    /\ call.op \in {"L", "J"}
         => (Failed <=> RelOrient(port2, port1) \notin {Deg(90), Deg(270)})
    /\ call.op \in {"U", "C"}
         => (Failed <=> RelOrient(port2, port1) \notin {Deg(0), Deg(180), Deg(360)})
    /\ call.op = "manhattan"
         => (Failed <=> RelOrient(port1, port2)
                          \notin {Deg(0), Deg(90), Deg(180), Deg(270), Deg(360)})
    /\ Failed => result.pts = <<>>

\* path_C accepts a difference that rounds to 360, path_L rejects parallel ports
C10_Witness ==
    \/ /\ call.op = "C" /\ RelOrient(port2, port1) = Deg(360) /\ Ok
    \/ /\ call.op = "L" /\ RelOrient(port2, port1) = Deg(180) /\ Failed

\* the forward direction of a port, times Scale
Forward1(p) == rotated_basis(p.o).e1

\* pt lies on the ray that leaves port p along its forward direction, to
\* within 1e-3
OnRay(pt, p) ==
    LET d == Sub(pt, Center(p))
        e == Forward1(p)
    IN  /\ Abs(RoundDiv(d[1] * e[2] - d[2] * e[1], Scale)) <= 10
        /\ Dot(d, e) >= 0

\* C11: path_V raises and returns no path when the two orientations are equal
\* or exactly 180 degrees apart; otherwise it returns three points, the middle
\* one on the forward rays of both ports.
C11_VParallelRaises ==
    call.op = "V"
    => IF (port2.o - port1.o) % Deg(360) \in {Deg(0), Deg(180)}
       THEN Failed /\ result.pts = <<>>
       ELSE /\ Ok
            /\ Len(result.pts) = 3
            /\ OnRay(result.pts[2], port1)
            /\ OnRay(result.pts[2], port2)

\* the radius path_manhattan works with
EffectiveRadius == call.radius + Scale \div 10

ManhattanOrthogonal ==
    call.op = "manhattan" /\ RelOrient(port1, port2) \in {Deg(90), Deg(270)}

\* C19 as stated: for orthogonal ports path_manhattan returns a 3-point L when
\* the forward offset and the lateral offset of port 2 both exceed the
\* effective radius, and a 5-point J otherwise.
C19_LWhenBothOffsetsExceed ==
    ManhattanOrthogonal
    => /\ Ok
       /\ IF /\ xrel(port1, port2) > EffectiveRadius
             /\ Abs(yrel(port1, port2)) > EffectiveRadius
          THEN result.shape = "L" /\ Len(result.pts) = 3
          ELSE result.shape = "J" /\ Len(result.pts) = 5

\* C19: for orthogonal ports path_manhattan returns a 3-point L when port 2
\* lies more than the effective radius ahead of port 1 and port 1 more than the
\* effective radius ahead of port 2, each along the forward direction of the
\* other port, and a 5-point J otherwise.
C19_LWhenAheadOfEachOther ==
    ManhattanOrthogonal
    => /\ Ok
       /\ IF /\ xrel(port1, port2) > EffectiveRadius
             /\ xrel(port2, port1) > EffectiveRadius
          THEN result.shape = "L" /\ Len(result.pts) = 3
          ELSE result.shape = "J" /\ Len(result.pts) = 5

\* port 2 far enough ahead and aside, but facing away from port 1's axis: a J
C19_Witness ==
    /\ ManhattanOrthogonal /\ Ok
    /\ xrel(port1, port2) > EffectiveRadius
    /\ Abs(yrel(port1, port2)) > EffectiveRadius
    /\ result.shape = "J" /\ Len(result.pts) = 5

ManhattanJ == call.op = "manhattan" /\ Ok /\ result.shape = "J"

\* length1 and length2 of a J, read off its first and last segment
JLength1 == SegLen(result.pts[1], result.pts[2])

JLength2 == SegLen(result.pts[4], result.pts[5])

\* C20 as stated: in a J of path_manhattan length1, length2 and the two
\* intermediate segments are between R and 2R long, R the effective radius.
C20_JWithinRTo2R ==
    ManhattanJ
    => /\ EffectiveRadius <= JLength1 /\ JLength1 <= 2 * EffectiveRadius
       /\ EffectiveRadius <= JLength2 /\ JLength2 <= 2 * EffectiveRadius
       /\ \A i \in {2, 3} :
            /\ SegLen(result.pts[i], result.pts[i + 1]) >= EffectiveRadius
            /\ SegLen(result.pts[i], result.pts[i + 1]) <= 2 * EffectiveRadius

\* C20: in a J of path_manhattan length1 and length2 are at least R and less
\* than 5R long, and the two intermediate segments at least R, R the effective
\* radius.
C20_JAtLeastR ==
    ManhattanJ
    => /\ EffectiveRadius <= JLength1 /\ JLength1 < 5 * EffectiveRadius
       /\ EffectiveRadius <= JLength2 /\ JLength2 < 5 * EffectiveRadius
       /\ \A i \in {2, 3} :
            SegLen(result.pts[i], result.pts[i + 1]) >= EffectiveRadius

\* a J whose first leg is longer than 2R
C20_Witness ==
    /\ ManhattanJ /\ call.radius > 0
    /\ JLength1 > 2 * EffectiveRadius

ManhattanParallel ==
    call.op = "manhattan" /\ RelOrient(port1, port2) \in {Deg(0), Deg(180)}

\* signed length of the segment a -> b along the unit vector e
Signed(a, b, e) == Dot(Sub(b, a), e)

\* two lengths agree to within 1e-3, the precision np.round(., 3) keeps (a
\* length read off waypoints along a diagonal axis carries their rounding)
Same(a, b) == Abs(a - b) <= 10

\* length1 of a U and left1 of a C, read off the returned waypoints
ULength1 == Signed(result.pts[1], result.pts[2], rotated_basis(port1.o).e1)

CLeft1 == Signed(result.pts[2], result.pts[3], rotated_basis(port1.o).e2)

\* C21: for parallel ports (relative orientation 0 or 180) path_manhattan
\* returns the 2-point straight iff orel = 180, yrel = 0 and xrel > 0;
\* otherwise the 6-point C iff (orel = 180 and xrel <= 2R) or |yrel| < 2R, its
\* left1 negative for yrel < 0 and positive for yrel > 0; otherwise the 4-point
\* U whose length1 is R + xrel when orel = 0 and xrel > 0, and R otherwise
\* (R the effective radius).
C21_ParallelShape ==
    ManhattanParallel
    => LET R == EffectiveRadius
           x == xrel(port1, port2)
           y == yrel(port1, port2)
           o == RelOrient(port1, port2)
       IN  /\ Ok
           /\ IF o = Deg(180) /\ y = 0 /\ x > 0
              THEN result.shape = "straight" /\ Len(result.pts) = 2
              ELSE IF (o = Deg(180) /\ x <= 2 * R) \/ Abs(y) < 2 * R
              THEN /\ result.shape = "C" /\ Len(result.pts) = 6
                   /\ y < 0 => CLeft1 < 0
                   /\ y > 0 => CLeft1 > 0
              ELSE /\ result.shape = "U" /\ Len(result.pts) = 4
                   /\ Same(ULength1, IF o = Deg(0) /\ x > 0 THEN R + x ELSE R)

\* a U between ports that face the same way, port 2 ahead of port 1
C21_Witness ==
    /\ ManhattanParallel /\ Ok
    /\ RelOrient(port1, port2) = Deg(0) /\ xrel(port1, port2) > 0
    /\ result.shape = "U"
    /\ Same(ULength1, EffectiveRadius + xrel(port1, port2))

Segments == 1 .. (Len(result.pts) - 1)

\* the components of segment i along the forward and the left unit vector of
\* port 1, to the three decimals np.round(., 3) keeps
Component(i, e) == Round3(Signed(result.pts[i], result.pts[i + 1], e))

ForwardPart(i) == Component(i, rotated_basis(port1.o).e1)

LateralPart(i) == Component(i, rotated_basis(port1.o).e2)

ZeroSegment(i) == ForwardPart(i) = 0 /\ LateralPart(i) = 0

\* the axis of port 1 that segment i runs along
Axis(i) ==
    IF LateralPart(i) = 0 THEN "forward"
    ELSE IF ForwardPart(i) = 0 THEN "lateral"
    ELSE "oblique"

\* segments i < j of non-zero length with only zero-length segments between
Successive(i, j) ==
    /\ i < j /\ ~ZeroSegment(i) /\ ~ZeroSegment(j)
    /\ \A k \in (i + 1) .. (j - 1) : ZeroSegment(k)

\* C22: every non-zero segment of a path returned by path_L, path_U, path_J,
\* path_C or path_manhattan runs along the forward or the lateral axis of port
\* 1, and each non-zero segment runs along the other axis than the non-zero
\* segment before it: no diagonal segment, no straight continuation and no
\* 180-degree reversal.
C22_RightAngleTurns ==
    (call.op \in {"L", "U", "J", "C", "manhattan"} /\ Ok)
    => /\ \A i \in Segments :
            ~ZeroSegment(i) => Axis(i) \in {"forward", "lateral"}
       /\ \A i \in Segments, j \in Segments :
            Successive(i, j) => Axis(i) # Axis(j)

\* C25: every path returned by path_straight, path_L, path_U, path_J, path_C,
\* path_Z, path_V and path_manhattan begins at the position of port 1 and ends
\* at the position of port 2, whatever the extra lengths.
C25_EndsOnPorts ==
    Ok => /\ result.pts[1] = Center(port1)
          /\ result.pts[Len(result.pts)] = Center(port2)

\* a Z with two legs of non-zero length, the second one ending on port 2
C25_Witness ==
    /\ call.op = "Z" /\ Ok
    /\ call.length1 > 0 /\ call.length2 > 0
    /\ result.pts[1] = Center(port1)
    /\ result.pts[3] # Center(port2)
    /\ result.pts[4] = Center(port2)

Last == Len(result.pts) - 1

\* the first segment leaves port 1 along its forward direction
LeavesForward == ForwardPart(1) > 0 /\ LateralPart(1) = 0

\* the last segment runs against the forward direction of port 2
ArrivesFacing ==
    /\ Component(Last, rotated_basis(port2.o).e1) < 0
    /\ Component(Last, rotated_basis(port2.o).e2) = 0

\* C26: a path returned by path_manhattan leaves port 1 in port 1's forward
\* direction and arrives at port 2 against port 2's forward direction; unless
\* it is the 2-point straight, each of its segments, the first and the last
\* included, is at least radius long.
C26_LeavesAndArrivesFacing ==
    (call.op = "manhattan" /\ Ok)
    => /\ LeavesForward
       /\ ArrivesFacing
       /\ result.shape # "straight"
            => \A i \in Segments :
                 SegLen(result.pts[i], result.pts[i + 1]) >= call.radius

---------------------------------------------------------------------------
(* Properties of the side-bundle router *)

Done == args.entry # "none"

Succeeded == Done /\ ret.status = "ok"

\* the call went to route_ports_to_x (a vertical target line)
ToX ==
    \/ args.entry = "x"
    \/ args.entry = "side" /\ args.side \in {"east", "west"}

\* the call went to route_ports_to_y (a horizontal target line)
ToY ==
    \/ args.entry = "y"
    \/ args.entry = "side" /\ args.side \in {"north", "south"}

\* the routing function was called for a port it raises for
RoutingFailed ==
    /\ Done
    /\ \E k \in DOMAIN ret.calls : ret.calls[k].src.name \in args.kw.fails

\* the input port the k-th returned port was made for
Source(k) ==
    CHOOSE p \in {list_ports[i] : i \in DOMAIN list_ports} :
        p.name = ret.trace[k].name

\* coordinate of the k-th returned port along the target line
Lane(k) == IF ToX THEN ret.ports[k].y ELSE ret.ports[k].x

\* coordinates of the input ports along the target line
SourceLanes ==
    {IF ToX THEN list_ports[i].y ELSE list_ports[i].x : i \in DOMAIN list_ports}

\* the k-th returned port stands where its input port stands
Stays(k) == ToY /\ Center(ret.ports[k]) = Center(Source(k))

\* the returned ports that come with a route, in order
Routed ==
    SelectSeq([k \in DOMAIN ret.ports |-> k], LAMBDA k : ~Stays(k))

AllCardinal == \A i \in DOMAIN list_ports : list_ports[i].o \in Cardinal

\* C3 as stated: route_ports_to_side returns one route and one new port per
\* input port, whatever the orientations, the i-th route ending at the i-th
\* new port.
C3_OnePairPerPort ==
    (Succeeded /\ args.entry = "side")
    => /\ Len(ret.ports) = Len(list_ports)
       /\ Len(ret.routes) = Len(list_ports)
       /\ \A i \in DOMAIN ret.routes : flip(ret.routes[i].dst) = ret.ports[i]

\* C3: for ports that each face exactly 0, 90, 180 or 270 degrees, a successful
\* route_ports_to_side returns one new port per input port, each input port
\* once, and one route for every new port except those that route_ports_to_y
\* places on their input port's own position; the routes follow the order of
\* their new ports.
C3_OnePortPerCardinalPort ==
    (Succeeded /\ args.entry = "side" /\ AllCardinal)
    => /\ Len(ret.ports) = Len(list_ports)
       /\ \A i \in DOMAIN list_ports :
            Cardinality({k \in DOMAIN ret.trace :
                            ret.trace[k].name = list_ports[i].name}) = 1
       /\ Len(ret.routes) = Len(Routed)
       /\ \A j \in DOMAIN ret.routes :
            /\ flip(ret.routes[j].dst) = ret.ports[Routed[j]]
            /\ ret.routes[j].src = Source(Routed[j])

\* two cardinal ports, one of which already stands on the target line
C3_Witness ==
    /\ Succeeded /\ args.entry = "side" /\ AllCardinal
    /\ Len(list_ports) = 2 /\ Len(ret.ports) = 2 /\ Len(ret.routes) = 1

Distance(i, j) == Abs(Lane(i) - Lane(j))

\* C4 as stated: any two returned ports are at least separation apart along
\* the target line.
C4_PairwiseSeparation ==
    Succeeded
    => \A i, j \in DOMAIN ret.ports :
          i # j => Distance(i, j) >= args.kw.separation

Forward(k) == ret.trace[k].grp = "forward"

\* the stack the k-th returned port was put on
Stack(k) ==
    CASE ret.trace[k].grp \in {"south", "backward_thru_south",
                               "west", "backward_thru_west"} -> "low"
      [] ret.trace[k].grp \in {"north", "backward_thru_north",
                               "east", "backward_thru_east"} -> "high"
      [] OTHER -> "none"

DefaultLanes ==
    /\ args.kw.lane0_lo = None /\ args.kw.lane0_hi = None
    /\ args.kw.dx_start = 0 /\ args.kw.dy_start = 0

\* C4: two returned ports stacked on the same side of the bundle are at least
\* separation apart along the target line; when the lane origins are left at
\* their defaults so are a stacked port and any other returned port.  (Two
\* forward ports keep their own coordinates.)
C4_StackedSeparation ==
    Succeeded
    => \A i, j \in DOMAIN ret.ports :
          (i # j /\ ~Forward(i))
          => /\ Stack(i) = Stack(j) => Distance(i, j) >= args.kw.separation
             /\ DefaultLanes => Distance(i, j) >= args.kw.separation

\* a stacked port and a forward port, and two ports on one stack
C4_Witness ==
    /\ Succeeded /\ DefaultLanes /\ Len(ret.ports) = 2
    /\ \/ ~Forward(1) /\ Forward(2)
       \/ Stack(1) = "low" /\ Stack(2) = "low"

\* C5 as stated: when the routing function raises, either router raises an
\* error that names the port and its target port.
C5_DescriptiveError ==
    RoutingFailed
    => /\ ret.status = "error"
       /\ ret.err = "ValueError"
       /\ Len(ret.names) = 2
       /\ ret.names[1] \in args.kw.fails

\* C6: when the routing function raises for a port, the call returns neither
\* routes nor ports, whatever was routed before.
C6_AllOrNothing ==
    RoutingFailed
    => /\ ret.status = "error"
       /\ ret.routes = <<>>
       /\ ret.ports = <<>>

\* the routing function raises for the second port it is called for
C6_Witness ==
    /\ RoutingFailed /\ ToY
    /\ Len(ret.calls) = 2 /\ Len(ret.trace) = 1

\* the group of the k-th returned port, from the way its input port faces:
\* 1 low side (south, or west for a horizontal line), 2 forward, 3 high side,
\* 4 backward and led round the high side, 5 backward and led round the low side
Group(k) ==
    LET o == Source(k).o
        low == IF ToX THEN Deg(270) ELSE Deg(180)
        high == IF ToX THEN Deg(90) ELSE Deg(0)
    IN  CASE o = low -> 1
          [] o = ret.ports[k].o -> 2
          [] o = high -> 3
          [] OTHER -> IF Lane(k) > MaxOf(SourceLanes) THEN 4 ELSE 5

C12_NoRouteToOwnPosition ==
    Done
    => /\ \A k \in DOMAIN ret.calls :
            Center(ret.calls[k].dst) # Center(ret.calls[k].src)
       /\ Succeeded =>
            \A k \in DOMAIN ret.ports :
               Center(ret.ports[k]) = Center(Source(k))
               => \A j \in DOMAIN ret.routes : ret.routes[j].src # Source(k)

\* the target handed to route_ports_to_x or route_ports_to_y
Target ==
    IF args.entry # "side" THEN args.target
    ELSE IF ToX /\ args.x # None THEN NumTarget(args.x[1])
    ELSE IF ToY /\ args.y # None THEN NumTarget(args.y[1])
    ELSE SideTarget(args.side)

\* the target is one of the four side names
NamedSide == IsSide(Target) /\ Target.side \in {"north", "south", "east", "west"}

\* coordinate of the k-th returned port across the target line
Across(k) == IF ToX THEN ret.ports[k].x ELSE ret.ports[k].y

PortXs == {list_ports[i].x : i \in DOMAIN list_ports}

PortYs == {list_ports[i].y : i \in DOMAIN list_ports}

PlainCall ==
    /\ args.kw.dx_start = 0 /\ args.kw.dy_start = 0
    /\ args.kw.extension_length = 0

\* max(radius, separation) + epsilon
Margin == Max(args.kw.radius, args.kw.separation) + Um

\* C13 as stated: for a side name the line lies max(radius, separation) + 1
\* outside the outermost port, on all four sides.
C13_SameMarginAllSides ==
    (Succeeded /\ NamedSide /\ PlainCall)
    => \A k \in DOMAIN ret.ports :
          Across(k) = CASE Target.side = "east" -> MaxOf(PortXs) + Margin
                        [] Target.side = "west" -> MinOf(PortXs) - Margin
                        [] Target.side = "north" -> MaxOf(PortYs) + Margin
                        [] Target.side = "south" -> MinOf(PortYs) - Margin

\* radius + max(radius, separation)
MarginY == args.kw.radius + Max(args.kw.radius, args.kw.separation)

\* how far a port reaches up and down: MarginY * |cos(orientation)|
Reach(p) == RoundDiv(MarginY * Abs(Cos(p.o)), Scale)

\* where a side name puts the target line when dx_start and dy_start are unset
NamedLine ==
    CASE Target.side = "east" -> MaxOf(PortXs) + Margin
      [] Target.side = "west" -> MinOf(PortXs) - Margin
      [] Target.side = "north" ->
            MaxOf({list_ports[i].y + Reach(list_ports[i]) : i \in DOMAIN list_ports})
            + MarginY
      [] Target.side = "south" ->
            MinOf({list_ports[i].y - Reach(list_ports[i]) : i \in DOMAIN list_ports})
            - MarginY

\* C13: for the side names east and west the line lies max(radius, separation)
\* + 1 outside the outermost port; for north and south it lies radius +
\* max(radius, separation) outside the outermost reach of a port, a port
\* reaching (radius + max(radius, separation)) * |cos(orientation)| up and down.
C13_MarginPerAxis ==
    (Succeeded /\ NamedSide /\ PlainCall)
    => \A k \in DOMAIN ret.ports : Across(k) = NamedLine

\* a northern line for a radius other than 1 and a port facing east
C13_Witness ==
    /\ Succeeded /\ NamedSide /\ PlainCall /\ Target.side = "north"
    /\ args.kw.radius # Um
    /\ \E k \in DOMAIN ret.ports : Source(k).o = Deg(0) /\ Across(k) = NamedLine

\* the way a returned port faces, from where the target line lies
Facing ==
    IF IsSide(Target)
    THEN CASE Target.side = "east" -> {Deg(0)}
           [] Target.side = "west" -> {Deg(180)}
           [] Target.side = "north" -> {Deg(90)}
           [] Target.side = "south" -> {Deg(270)}
    ELSE IF ToX
    THEN IF Target.v > MaxOf(PortXs) THEN {Deg(0)} ELSE {Deg(180)}
    ELSE IF Target.v > MaxOf(PortYs) THEN {Deg(90)}
    ELSE IF Target.v < MinOf(PortYs) THEN {Deg(270)}
    ELSE {Deg(90), Deg(270)}

\* the returned ports stand on one line and face the target side
OneLineFacing ==
    /\ \A k \in DOMAIN ret.ports : ret.ports[k].o \in Facing
    /\ \A j, k \in DOMAIN ret.ports : Across(j) = Across(k)

\* the target line is known without knowing dx_start and dy_start
KnownLine ==
    ~IsSide(Target) \/ (args.kw.dx_start = 0 /\ args.kw.dy_start = 0)

TargetLine == IF IsSide(Target) THEN NamedLine ELSE Target.v

\* C14 as stated: every returned port stands at target + extension_length and
\* faces the target side.
C14_OnLinePlusExtension ==
    Succeeded
    => /\ OneLineFacing
       /\ KnownLine =>
            \A k \in DOMAIN ret.ports :
               Across(k) = TargetLine + args.kw.extension_length

\* extension_length as it counts: a positive one is subtracted for the side
\* names west and south
SignedExtension ==
    IF IsSide(Target) /\ Target.side \in {"west", "south"}
       /\ args.kw.extension_length > 0
    THEN -args.kw.extension_length
    ELSE args.kw.extension_length

\* C14: every returned port faces the target side and stands on one line, at
\* target + extension_length, a positive extension_length being subtracted when
\* the target is the side name west or south.
C14_OnLineOutward ==
    Succeeded
    => /\ OneLineFacing
       /\ KnownLine =>
            \A k \in DOMAIN ret.ports : Across(k) = TargetLine + SignedExtension

\* two ports sent west with a positive extension_length
C14_Witness ==
    /\ Succeeded /\ IsSide(Target) /\ Target.side = "west"
    /\ args.kw.extension_length > 0 /\ Len(ret.ports) = 2
    /\ ret.ports[1].o = Deg(180)

\* the k-th call of the routing function is for a port that faces the target
ForwardCall(k) == ret.calls[k].src.o = flip(ret.calls[k].dst).o

\* coordinate of a port along the target line
Lateral(p) == IF ToX THEN p.y ELSE p.x

\* C15: the new port of a port that faces the target side has the port's own
\* coordinate along the target line, and the routing function, when called for
\* such a port, gets the caller's start_straight_length.
C15_ForwardKeepsLane ==
    Done
    => /\ \A k \in DOMAIN ret.ports :
            Source(k).o = ret.ports[k].o => Lane(k) = Lateral(Source(k))
       /\ \A k \in DOMAIN ret.calls :
            ForwardCall(k) => ret.calls[k].start_straight_length
                                = args.kw.start_straight_length

\* a forward port routed next to a backward port whose start_straight_length
\* was lengthened, the caller's not being the default
C15_Witness ==
    /\ Succeeded /\ Len(ret.calls) = 2
    /\ args.kw.start_straight_length # StartStraightDefault
    /\ \E j, k \in DOMAIN ret.calls :
         /\ ForwardCall(j)
         /\ ret.calls[k].start_straight_length # args.kw.start_straight_length

\* the call ended in the ValueError of a misplaced target, nothing routed
Rejected ==
    /\ ret.status = "error" /\ ret.err = "ValueError"
    /\ ret.calls = <<>> /\ ret.routes = <<>> /\ ret.ports = <<>>

\* coordinates of the ports across the target line
PortsAcross == IF ToX THEN PortXs ELSE PortYs

NumericCall == Done /\ (ToX \/ ToY) /\ ~IsSide(Target) /\ list_ports # <<>>

\* C16 as stated: a numeric target between or on the outermost ports is
\* rejected by both routers before any port is routed.
C16_OnPortsRaises ==
    (NumericCall /\ MinOf(PortsAcross) <= Target.v /\ Target.v <= MaxOf(PortsAcross))
    => Rejected

\* C16: route_ports_to_x rejects a numeric target with min <= x <= max,
\* route_ports_to_y one with min < y < max, before any port is routed;
\* route_ports_to_y accepts a target on the lowest or highest port.
C16_BetweenPortsRaises ==
    NumericCall
    => /\ (ToX /\ MinOf(PortXs) <= Target.v /\ Target.v <= MaxOf(PortXs))
            => Rejected
       /\ (ToY /\ MinOf(PortYs) < Target.v /\ Target.v < MaxOf(PortYs))
            => Rejected
       /\ (ToY /\ Target.v \in {MinOf(PortYs), MaxOf(PortYs)})
            => ~Rejected

\* route_ports_to_y rejects a line between two ports
C16_Witness ==
    /\ NumericCall /\ ToY /\ Rejected
    /\ MinOf(PortYs) < Target.v /\ Target.v < MaxOf(PortYs)

\* C17 as stated: route_ports_to_side raises ValueError for a side that is not
\* north, south, east or west, whatever the ports, and routes nothing.
C17_InvalidSideRaises ==
    (args.entry = "side" /\ args.side \notin {"north", "south", "east", "west"})
    => Rejected

\* the backward ports among the returned ports
Backward == {k \in DOMAIN ret.ports : Group(k) \in {4, 5}}

\* the lowest and the highest index (from 0) that the k-th returned port can
\* have among the backward ports sorted from left to right
LowIndex(k) ==
    Cardinality({j \in Backward : Source(j).x < Source(k).x})

HighIndex(k) ==
    Cardinality({j \in Backward \ {k} : Source(j).x <= Source(k).x})

\* C18 as stated: in route_ports_to_y a backward port with index lower than or
\* equal to backward_port_side_split_index goes round the west side, one with a
\* larger index round the east side.
C18_SplitIndexInclusive ==
    (Succeeded /\ ToY)
    => \A k \in Backward :
          /\ HighIndex(k) <= args.kw.split => Group(k) = 5
          /\ LowIndex(k) > args.kw.split => Group(k) = 4

\* the k-th call of the routing function is for a backward port: one that
\* faces away from the target line, as its new port does before it is flipped
BackwardCall(k) == ret.calls[k].src.o = Mod360(ret.calls[k].dst.o)

\* ... whose lane lies beyond the high end of the bundle (via north / via east)
ViaHigh(k) ==
    (IF ToX THEN ret.calls[k].dst.y ELSE ret.calls[k].dst.x) > MaxOf(SourceLanes)

\* calls k - 1 and k are for two ports of the same half of the backward ports
SameHalf(k) ==
    /\ k > 1 /\ BackwardCall(k - 1) /\ BackwardCall(k)
    /\ ViaHigh(k - 1) = ViaHigh(k)

StartStraight(k) == ret.calls[k].start_straight_length

\* C23 as stated: within each half of the backward ports the
\* start_straight_length passed to the routing function strictly increases from
\* each port to the next.
C23_StartStraightIncreases ==
    Done => \A k \in DOMAIN ret.calls :
               SameHalf(k) => StartStraight(k) > StartStraight(k - 1)

\* how far the port of the k-th call stands from the edge of the bundle that
\* lies away from a vertical target line
BehindEdge(k) ==
    IF Mod360(ret.calls[k].dst.o) = Deg(0)
    THEN MaxOf(PortXs) - ret.calls[k].src.x
    ELSE ret.calls[k].src.x - MinOf(PortXs)

\* C23: within each half of the backward ports, from each port to the next,
\* the start_straight_length passed to the routing function strictly increases
\* for a horizontal target line; for a vertical one the passed value less the
\* port's distance from the far edge of the bundle strictly increases.
C23_StartStraightBaseIncreases ==
    Done => \A k \in DOMAIN ret.calls :
               SameHalf(k)
               => IF ToY
                  THEN StartStraight(k) > StartStraight(k - 1)
                  ELSE StartStraight(k) - BehindEdge(k)
                         > StartStraight(k - 1) - BehindEdge(k - 1)

\* two backward ports led round the same side of a vertical target line, the
\* second not given a longer start than the first
C23_Witness ==
    /\ Done /\ ToX /\ Len(ret.calls) = 2 /\ SameHalf(2)
    /\ BehindEdge(1) > BehindEdge(2)
    /\ StartStraight(2) <= StartStraight(1)

\* the place of a group in the order the docstrings give: the bottom half of
\* the backward ports, the south ports, the front ports, the north ports; west
\* and east stand for south and north when the target line is horizontal.  The
\* docstrings do not place the other half of the backward ports (0).
DocstringRank(grp) ==
    CASE grp \in {"backward_thru_south", "backward_thru_west"} -> 1
      [] grp \in {"south", "west"} -> 2
      [] grp = "forward" -> 3
      [] grp \in {"north", "east"} -> 4
      [] OTHER -> 0

\* C24 as stated: the ports are processed, and their new ports appended, group
\* by group in the order of the docstrings: the bottom half of the backward
\* ports first, then the south ports, the front ports, the north ports.
C24_DocstringOrder ==
    Done => \A j, k \in DOMAIN ret.trace :
               (/\ j < k
                /\ DocstringRank(ret.trace[j].grp) # 0
                /\ DocstringRank(ret.trace[k].grp) # 0)
               => DocstringRank(ret.trace[j].grp)
                    <= DocstringRank(ret.trace[k].grp)

\* the new ports made, and the calls of the routing function, for input port i
NewPortsOf(i) == {k \in DOMAIN ret.trace : ret.trace[k].name = list_ports[i].name}

CallsOf(i) == {k \in DOMAIN ret.calls : ret.calls[k].src.name = list_ports[i].name}

\* the groups input port i was put in
GroupsOf(i) == {ret.trace[k].grp : k \in NewPortsOf(i)}

\* C27: when every input port faces exactly 0, 90, 180 or 270 degrees, a call
\* of route_ports_to_x or route_ports_to_y that returns has put each input port
\* in exactly one of the five groups and made exactly one new port for it, and
\* has called the routing function at most once for it, whatever the value of
\* backward_port_side_split_index.
C27_OneGroupPerPort ==
    (Succeeded /\ AllCardinal)
    => /\ Len(ret.ports) = Len(ret.trace)
       /\ \A i \in DOMAIN list_ports :
            /\ Cardinality(NewPortsOf(i)) = 1
            /\ Cardinality(GroupsOf(i)) = 1
            /\ Cardinality(CallsOf(i)) <= 1

\* two backward ports that a negative split index sends round different sides
C27_Witness ==
    /\ Succeeded /\ AllCardinal /\ args.kw.split = -1
    /\ Len(list_ports) = 2 /\ Len(ret.trace) = 2
    /\ DocstringRank(ret.trace[1].grp) = 0
    /\ DocstringRank(ret.trace[2].grp) = 1

\* the call leaves the lane origins, the extend_* values, dx_start and
\* dy_start at their defaults
DefaultParameters ==
    /\ DefaultLanes
    /\ args.kw.extend_lo = 0 /\ args.kw.extend_hi = 0

\* the returned ports that are not forward ports
Stacked == {k \in DOMAIN ret.ports : ~Forward(k)}

\* C28: with default lane parameters the lanes of the ports that are not
\* forward ports are pairwise at least separation apart, and each lies at least
\* separation outside the interval the input ports span along the lane axis,
\* hence at least separation from the lane of every forward port.
C28_LanesClearBundle ==
    (Succeeded /\ DefaultParameters)
    => \A k \in Stacked :
          /\ \A j \in Stacked \ {k} : Distance(k, j) >= args.kw.separation
          /\ \/ Lane(k) <= MinOf(SourceLanes) - args.kw.separation
             \/ Lane(k) >= MaxOf(SourceLanes) + args.kw.separation
          /\ \A j \in DOMAIN ret.ports :
                Forward(j) => Distance(k, j) >= args.kw.separation

\* radius 0: a port stacked above and one stacked below a forward port
C28_Witness ==
    /\ Succeeded /\ DefaultParameters /\ args.kw.radius = 0
    /\ Len(ret.ports) = 2
    /\ \/ Stacked = {1} /\ Forward(2)
       \/ Stacked = {2} /\ Forward(1)
       \/ Stacked = {1, 2} /\ Stack(1) # Stack(2)

---------------------------------------------------------------------------
(* Properties of the file watcher *)

Registered(name) == cells[name] # NoCell

\* C30 as stated: after a delete event for X.pic.yml, and after a move event
\* that renames X.pic.yml to Y.pic.yml, cell X is not registered; after a
\* create event or a move event for Y.pic.yml cell Y is registered and builds
\* from the file at that path.
C30_RegistryTracksFiles ==
    /\ (event.type = "deleted" /\ is_pic_yml(event.src))
         => ~Registered(cell_name(event.src))
    /\ (/\ event.type = "moved"
        /\ is_pic_yml(event.src) /\ is_pic_yml(event.dest)
        /\ cell_name(event.src) # cell_name(event.dest))
         => ~Registered(cell_name(event.src))
    /\ (event.type \in {"created", "moved"} /\ is_pic_yml(event.dest))
         => cells[cell_name(event.dest)] = event.dest

=============================================================================
